---- MODULE Spec2Model ----
(***************************************************************************)
(* A caching reverse proxy: CacheProxy::handle_request (proxy.rs) over     *)
(* DataCache (datacache.rs), configured by Config (main.rs).               *)
(*                                                                         *)
(* Byte strings are sequences of byte values.  Time is counted in ticks of *)
(* 1/TicksPerSec second, so that the whole-second truncation of            *)
(* Duration::num_seconds is visible.  The sled engine is an atomic         *)
(* key/value map whose get and insert may report an I/O error; the         *)
(* upstream forwarder is an environment that answers with a response or    *)
(* with an error.                                                          *)
(***************************************************************************)
EXTENDS Integers, Sequences, FiniteSets, TLC

\* ------------------------------------------------------------------ bounds
MaxTime     == 4   \* the clock stops after this many ticks
MaxTTL      == 1   \* configured cache.ttl ranges over 0..MaxTTL seconds
TicksPerSec == 2   \* clock resolution: ticks in one second

\* -------------------------------------------------------- program constants
MAGIC_LEN == 12
StatusOK  == 200

\* The tasks warp spawns, one for each request it accepts, in this order.
Tasks == <<"t1", "t2">>
TaskIds == DOMAIN Tasks

\* ------------------------------------------------------------ byte strings
MagicA   == <<77, 65, 71, 73, 67, 95, 65, 66, 67, 68, 69, 70>>
MagicB   == <<77, 65, 71, 73, 67, 95, 65, 66, 67, 68, 69, 71>>
ShortPat == <<77, 65, 71>>

PathA  == <<47, 97>>
PathAB == <<47, 97, 98>>
BodyB  == <<98>>
NoBody == <<>>

\* ------------------------------------------------------------- header maps
\* A HeaderMap is a function from lower-case header names to the non-empty
\* sequence of the values appended under that name, in order.
EmptyHeaders == <<>>

\* HeaderName::from_bytes: the canonical (lower-case) form of a name.
HeaderName(key) ==
    CASE key = "Access-Control-Allow-Headers" -> "access-control-allow-headers"
      [] key = "Access-Control-Allow-Origin"  -> "access-control-allow-origin"
      [] key = "Access-Control-Allow-Methods" -> "access-control-allow-methods"
      [] key = "Content-Type"                 -> "content-type"
      [] key = "Strict-Transport-Security"    -> "strict-transport-security"
      [] key = "Content-Security-Policy"      -> "content-security-policy"
      [] key = "Referrer-Policy"              -> "referrer-policy"
      [] key = "X-XSS-Protection"             -> "x-xss-protection"
      [] key = "X-Content-Type-Options"       -> "x-content-type-options"
      [] key = "Server"                       -> "server"
      [] key = "Host"                         -> "host"
      [] OTHER                                -> key

\* HeaderMap::get: the first value under the name, if any.
HeaderGet(headers, key) ==
    IF HeaderName(key) \in DOMAIN headers
    THEN <<headers[HeaderName(key)][1]>>
    ELSE <<>>

\* Builder::header / HeaderMap::append: one more value under the name.
HeaderAppend(headers, key, value) ==
    LET n == HeaderName(key) IN
    IF n \in DOMAIN headers
    THEN [headers EXCEPT ![n] = Append(@, value)]
    ELSE (n :> <<value>>) @@ headers

\* HeaderMap::insert: the value replaces whatever the name held.
HeaderInsert(headers, key, value) ==
    LET n == HeaderName(key) IN
    (n :> <<value>>) @@ [k \in DOMAIN headers \ {n} |-> headers[k]]

CACHE_HEADER_KEYS ==
    << "Access-Control-Allow-Headers",
       "Access-Control-Allow-Origin",
       "Access-Control-Allow-Methods",
       "Content-Type",
       "Strict-Transport-Security",
       "Content-Security-Policy",
       "Referrer-Policy",
       "X-XSS-Protection",
       "X-Content-Type-Options" >>

\* format!("{}/{}", SERVER_NAME, SERVER_VERSION)
ServerValue == "CARGO_PKG_NAME/CARGO_PKG_VERSION"

\* --------------------------------------------------------------- responses
NoResponse == [status |-> 0, headers |-> EmptyHeaders, body |-> <<>>]

HeadersHtml ==
    ("content-type" :> <<"text/html">>)
    @@ ("set-cookie" :> <<"sid=1">>)
    @@ ("server" :> <<"nginx">>)

HeadersJson ==
    ("content-security-policy" :> <<"default-src 'self'", "img-src *">>)
    @@ ("content-type" :> <<"application/json">>)

\* What the upstream service may answer.
Responses ==
    { [status |-> 200, headers |-> HeadersHtml,  body |-> MagicA \o <<33>>],
      [status |-> 200, headers |-> HeadersJson,  body |-> MagicB],
      [status |-> 200, headers |-> EmptyHeaders, body |-> <<>>],
      [status |-> 200, headers |-> HeadersHtml,  body |-> ShortPat],
      [status |-> 404, headers |-> HeadersHtml,  body |-> MagicA \o <<33>>] }

\* ---------------------------------------------------------------- requests
BaseRequest ==
    [path |-> PathA, query |-> "", method |-> "GET",
     headers |-> EmptyHeaders, body |-> BodyB]

\* The requests clients send: the base request, the requests that change
\* one of its parts alone, and one whose path and body, laid end to end,
\* read like the base request's.
Requests ==
    { BaseRequest,
      [BaseRequest EXCEPT !.query = "page=2"],
      [BaseRequest EXCEPT !.method = "POST"],
      [BaseRequest EXCEPT !.method = "PUT"],
      [BaseRequest EXCEPT !.headers = ("accept" :> <<"text/html">>)],
      [BaseRequest EXCEPT !.body = NoBody],
      [BaseRequest EXCEPT !.path = PathAB],
      [BaseRequest EXCEPT !.path = PathAB, !.body = NoBody] }

\* ----------------------------------------------------- datacache.rs: hash
\* blake3::Hasher, the digest taken as collision-free: it stands for the
\* byte stream it was fed.
Hasher_new == <<>>
Hasher_update(hasher, bytes) == hasher \o bytes
Hasher_finalize(hasher) == hasher

rq_hash_string(uri, body) ==
    Hasher_finalize(Hasher_update(Hasher_update(Hasher_new, uri), body))

\* FullPath::as_str: the path of the request URI; the query string travels
\* apart, in QueryParameters.
FullPath(req) == req.path

\* Mutant: the method is hashed too.
Fingerprint_with_method(req) ==
    Hasher_finalize(Hasher_update(
        Hasher_update(Hasher_update(Hasher_new, FullPath(req)), req.body),
        IF req.method = "GET" THEN <<71>>
        ELSE IF req.method = "POST" THEN <<80>> ELSE <<85>>))

\* handle_request, line 110: the fingerprint of a request.
Fingerprint(req) == rq_hash_string(FullPath(req), req.body)

\* ---------------------------------------------------- datacache.rs: entry
NullEntry == [status |-> 0, headers |-> EmptyHeaders, body |-> <<>>, ctime |-> 0]

\* CacheEntry::from_response, utcnow the reading of Utc::now().
from_response(response, utcnow) ==
    [status  |-> response.status,
     headers |-> response.headers,
     body    |-> response.body,
     ctime   |-> utcnow]

\* The loop of CacheEntry::to_response over CACHE_HEADER_KEYS[i..].
RECURSIVE CopyHeaders(_, _, _)
CopyHeaders(builder, headers, i) ==
    IF i > Len(CACHE_HEADER_KEYS) THEN builder
    ELSE LET key   == CACHE_HEADER_KEYS[i]
             value == HeaderGet(headers, key)
         IN CopyHeaders(IF value # <<>>
                        THEN HeaderAppend(builder, key, value[1])
                        ELSE builder,
                        headers, i + 1)

\* Mutant: every stored header is copied, allow-listed or not.
to_response_all_headers(entry) ==
    [status  |-> entry.status,
     headers |-> HeaderInsert([n \in DOMAIN entry.headers |-> <<entry.headers[n][1]>>],
                              "Server", ServerValue),
     body    |-> entry.body]

to_response(entry) ==
    [status  |-> entry.status,
     headers |-> CopyHeaders(HeaderAppend(EmptyHeaders, "Server", ServerValue),
                             entry.headers, 1),
     body    |-> entry.body]

\* bincode::serialize / bincode::deserialize of a CacheEntry.  Bytes that
\* are no record of the current layout (Garbage) fail to deserialize.
Serialize(entry) == [valid |-> TRUE, entry |-> entry]
Garbage == [valid |-> FALSE, entry |-> NullEntry]
Deserialize(data) ==
    IF data.valid THEN [ok |-> TRUE, entry |-> data.entry]
    ELSE [ok |-> FALSE, entry |-> NullEntry]

\* chrono Duration::num_seconds: whole seconds, truncated toward zero.
num_seconds(ticks) ==
    IF ticks >= 0 THEN ticks \div TicksPerSec ELSE -((-ticks) \div TicksPerSec)

\* ------------------------------------------------------------ main.rs: Config
\* Values of the array filter.include.  Value::into_str succeeds on a
\* string and fails on a table, which get_filter_include maps to None.
StrValue(bytes) == [kind |-> "String", str |-> bytes]
TableValue == [kind |-> "Table", str |-> <<>>]

Some(bytes) == [some |-> TRUE, val |-> bytes]
None == [some |-> FALSE, val |-> <<>>]

into_str(value) ==
    IF value.kind = "String" THEN Some(value.str) ELSE None

get_filter_include(array) ==
    [i \in 1..Len(array) |-> into_str(array[i])]

FilterSettings ==
    { <<>>,
      <<StrValue(MagicA)>>,
      <<StrValue(ShortPat), StrValue(MagicB)>>,
      <<TableValue>>,
      <<StrValue(MagicA), TableValue>> }

\* ------------------------------------------------------------------- state
VARIABLES
    filter_include,  \* CacheProxy.filter_include
    rq_save_path,    \* CacheProxy.rq_save_path is Some
    ttl,             \* DataCache.ttl, seconds
    db,              \* DataCache.db: hash -> stored bytes, for the keys present
    files,           \* debug capture directory: hash -> body
    now,             \* Utc::now(), in ticks
    pc,              \* per task: "idle", "lookup", "forwarding", "done"
    rq,              \* per task: the request in hand
    hash,            \* per task: its fingerprint
    calls,           \* per task: forwarder calls made for the request
    sent,            \* per task: the arguments of the pending forwarder call
    reply,           \* the last return of handle_request, with its request
    filled           \* hash -> the last successful insert: who, what, when

vars == <<filter_include, rq_save_path, ttl, db, files, now,
          pc, rq, hash, calls, sent, reply, filled>>

config == <<filter_include, rq_save_path, ttl>>

NoRequest ==
    [path |-> <<>>, query |-> "", method |-> "", headers |-> EmptyHeaders,
     body |-> <<>>]

NoArgs ==
    [uri |-> <<>>, params |-> "", method |-> "", headers |-> EmptyHeaders,
     body |-> <<>>]

\* The errors (Rejection) the forwarder may end with.
Errors == {"connection refused", "timed out"}
NoError == "none"

NoReply ==
    [rq |-> NoRequest, hash |-> <<>>, kind |-> "none", response |-> NoResponse,
     upstream |-> NoResponse, calls |-> 0, log |-> "none", err |-> NoError]

Init ==
    /\ filter_include \in { get_filter_include(a) : a \in FilterSettings }
    /\ rq_save_path \in BOOLEAN
    /\ ttl \in 0..MaxTTL
    \* the database outlives the process: it opens empty, or holding under a
    \* key bytes that are no CacheEntry of the current layout
    /\ db \in { <<>> } \cup
              { (h :> Garbage) :
                  h \in {Fingerprint(BaseRequest)} }
    \* debug capture and a database left behind are explored with the
    \* body filter off
    /\ (rq_save_path \/ db # <<>>) => filter_include = <<>>
    /\ files = <<>>
    /\ now = 0
    /\ pc = [t \in TaskIds |-> "idle"]
    /\ rq = [t \in TaskIds |-> NoRequest]
    /\ hash = [t \in TaskIds |-> <<>>]
    /\ calls = [t \in TaskIds |-> 0]
    /\ sent = [t \in TaskIds |-> NoArgs]
    /\ reply = NoReply
    /\ filled = <<>>

\* --------------------------------------------------- datacache.rs: DataCache
\* sled::Db::get and ::insert.  io is the engine's verdict on the call.
Db_get(key, io) ==
    IF ~io THEN [ok |-> FALSE, found |-> FALSE, data |-> Garbage]
    ELSE IF key \in DOMAIN db
         THEN [ok |-> TRUE, found |-> TRUE, data |-> db[key]]
         ELSE [ok |-> TRUE, found |-> FALSE, data |-> Garbage]

\* Mutant: a value already under the key wins over the new one.
Db_insert_keeps_old(key, data) == db @@ (key :> data)

\* Mutant: the insert empties the tree before it writes.
Db_insert_clears(key, data) == (key :> data)

Db_insert(key, data) == (key :> data) @@ db

\* Mutant: the size of the body is not looked at.
DataCache_get_serves_empty(key, io) ==
    LET got == Db_get(key, io) IN
    IF ~got.ok THEN [kind |-> "panic", response |-> NoResponse]
    ELSE IF ~got.found THEN [kind |-> "none", response |-> NoResponse]
    ELSE LET de == Deserialize(got.data) IN
         IF ~de.ok THEN [kind |-> "err", response |-> NoResponse]
         ELSE IF num_seconds(now - de.entry.ctime) > ttl
              THEN [kind |-> "none", response |-> NoResponse]
              ELSE [kind |-> "some", response |-> to_response(de.entry)]

\* DataCache::get.  kind is "panic" (the unwrap of an engine error),
\* "err" (Err returned: the bytes did not deserialize), "none" (Ok(None))
\* or "some" (Ok(Some(response))).  to_response builds from a status and
\* header values that were valid in the stored response, so it succeeds.
DataCache_get(key, io) ==
    LET got == Db_get(key, io) IN
    IF ~got.ok THEN [kind |-> "panic", response |-> NoResponse]
    ELSE IF ~got.found THEN [kind |-> "none", response |-> NoResponse]
    ELSE LET de == Deserialize(got.data) IN
         IF ~de.ok THEN [kind |-> "err", response |-> NoResponse]
         ELSE LET entry == de.entry
                  age   == num_seconds(now - entry.ctime)
              IN IF age > ttl
                 THEN [kind |-> "none", response |-> NoResponse]
                 ELSE IF Len(entry.body) > 0
                      THEN [kind |-> "some", response |-> to_response(entry)]
                      ELSE [kind |-> "none", response |-> NoResponse]

\* Mutant: a record already under the key keeps its creation time.
DataCache_insert_keeps_ctime(key, response, io) ==
    LET ctime == IF key \in DOMAIN db /\ db[key].valid
                 THEN db[key].entry.ctime ELSE now
        entry == from_response(response, ctime)
    IN IF io THEN Db_insert(key, Serialize(entry)) ELSE db

\* DataCache::insert: the database after the call; io FALSE is an Err of
\* bincode::serialize or of the engine, which leaves it as it was.
DataCache_insert(key, response, io) ==
    LET entry == from_response(response, now) IN
    IF io THEN Db_insert(key, Serialize(entry)) ELSE db

\* ------------------------------------------------------ proxy.rs: CacheProxy
Prefix(body, n) == SubSeq(body, 1, n)

\* Mutant: a pattern matches when the body starts with it.
filter_body_starts_with(body) ==
    IF Len(filter_include) > 0
    THEN IF Len(body) < MAGIC_LEN THEN FALSE
         ELSE \E i \in 1..Len(filter_include) :
                IF filter_include[i].some
                THEN filter_include[i].val =
                       Prefix(body, Len(filter_include[i].val))
                ELSE TRUE
    ELSE TRUE

\* Mutant: the filter is not applied.
filter_body_off(body) == TRUE

\* Mutant: a None pattern matches nothing.
filter_body_none_rejects(body) ==
    IF Len(filter_include) > 0
    THEN IF Len(body) < MAGIC_LEN THEN FALSE
         ELSE \E i \in 1..Len(filter_include) :
                /\ filter_include[i].some
                /\ filter_include[i].val = Prefix(body, MAGIC_LEN)
    ELSE TRUE

filter_body(body) ==
    IF Len(filter_include) > 0
    THEN IF Len(body) < MAGIC_LEN THEN FALSE
         ELSE LET magic == Prefix(body, MAGIC_LEN)
                  count == Cardinality(
                      { i \in 1..Len(filter_include) :
                          IF filter_include[i].some
                          THEN filter_include[i].val = magic
                          ELSE TRUE })
              IN count > 0
    ELSE TRUE

\* save_body: the capture directory after the call; io FALSE is a failed
\* create or write, which handle_request ignores.
save_body(key, body, io) ==
    IF rq_save_path /\ Len(body) # 0 /\ io
    THEN (key :> body) @@ files
    ELSE files

\* Mutant: the lookup is made for GET alone.
LookupMethods_get_only == {"GET"}

\* Mutant: the lookup is made for PUT as well.
LookupMethods_with_put == {"GET", "POST", "PUT"}

LookupMethods == {"GET", "POST"}

\* Mutant: every status counts as a success.
StatusIsOK_any(res) == res.status >= StatusOK

\* handle_request, line 145: only 200 OK is saved.
StatusIsOK(res) == res.status = StatusOK

\* The configured proxy.source, parsed into the Host header.
HostValue == "proxy.source"

\* The arguments of proxy_to_and_forward_response, lines 132-142.
ForwardArgs(req) ==
    [uri |-> FullPath(req), params |-> req.query, method |-> req.method,
     headers |-> HeaderInsert(req.headers, "Host", HostValue),
     body |-> req.body]

\* Mutant: once stored, the response goes out as the cache would serve it.
Return_cached_form(t, kind, response, up, ncalls, msg, err) ==
    /\ reply' = [rq |-> rq[t], hash |-> hash[t], kind |-> kind,
                 response |-> IF msg = "new response saved to cache"
                              THEN to_response(from_response(response, now))
                              ELSE response, upstream |-> up, calls |-> ncalls,
                 log |-> msg, err |-> err]
    /\ pc' = [pc EXCEPT ![t] = "done"]
    /\ rq' = [rq EXCEPT ![t] = NoRequest]
    /\ hash' = [hash EXCEPT ![t] = <<>>]
    /\ calls' = [calls EXCEPT ![t] = 0]
    /\ sent' = [sent EXCEPT ![t] = NoArgs]

\* The task is over: handle_request returned (kind "ok" with a response,
\* "error" with the error err) or panicked (kind "panic").
Return(t, kind, response, up, ncalls, msg, err) ==
    /\ reply' = [rq |-> rq[t], hash |-> hash[t], kind |-> kind,
                 response |-> response, upstream |-> up, calls |-> ncalls,
                 log |-> msg, err |-> err]
    /\ pc' = [pc EXCEPT ![t] = "done"]
    /\ rq' = [rq EXCEPT ![t] = NoRequest]
    /\ hash' = [hash EXCEPT ![t] = <<>>]
    /\ calls' = [calls EXCEPT ![t] = 0]
    /\ sent' = [sent EXCEPT ![t] = NoArgs]

\* handle_request, lines 109-117: fingerprint and debug capture.
Receive(t, req, io) ==
    /\ pc[t] = "idle"
    /\ \A u \in 1..(t - 1) : pc[u] # "idle"
    /\ LET h == Fingerprint(req) IN
       /\ hash' = [hash EXCEPT ![t] = h]
       /\ files' = save_body(h, req.body, io)
    /\ rq' = [rq EXCEPT ![t] = req]
    /\ pc' = [pc EXCEPT ![t] = "lookup"]
    /\ UNCHANGED <<config, db, now, calls, sent, reply, filled>>

\* Mutant: an Err of DataCache::get ends the request with that error.
Lookup_read_error_is_fatal(t, io) ==
    /\ pc[t] = "lookup"
    /\ LET got == IF rq[t].method \in LookupMethods
                  THEN DataCache_get(hash[t], io)
                  ELSE [kind |-> "skipped", response |-> NoResponse]
       IN CASE got.kind = "some" ->
                 Return(t, "ok", got.response, NoResponse, calls[t],
                        "return cached response", NoError)
            [] got.kind = "panic" ->
                 Return(t, "panic", NoResponse, NoResponse, calls[t],
                        "received new request", NoError)
            [] got.kind = "err" ->
                 Return(t, "error", NoResponse, NoResponse, calls[t],
                        "received new request", "corrupt entry")
            [] OTHER ->
                 /\ pc' = [pc EXCEPT ![t] = "forwarding"]
                 /\ calls' = [calls EXCEPT ![t] = @ + 1]
                 /\ sent' = [sent EXCEPT ![t] = ForwardArgs(rq[t])]
                 /\ UNCHANGED <<rq, hash, reply>>
    /\ UNCHANGED <<config, db, files, now, filled>>

\* handle_request, lines 119-142: the cache lookup, then either the cached
\* response or the call of the forwarder.
Lookup(t, io) ==
    /\ pc[t] = "lookup"
    /\ LET got == IF rq[t].method \in LookupMethods
                  THEN DataCache_get(hash[t], io)
                  ELSE [kind |-> "skipped", response |-> NoResponse]
       IN CASE got.kind = "some" ->
                 Return(t, "ok", got.response, NoResponse, calls[t],
                        "return cached response", NoError)
            [] got.kind = "panic" ->
                 Return(t, "panic", NoResponse, NoResponse, calls[t],
                        "received new request", NoError)
            [] OTHER ->
                 /\ pc' = [pc EXCEPT ![t] = "forwarding"]
                 /\ calls' = [calls EXCEPT ![t] = @ + 1]
                 /\ sent' = [sent EXCEPT ![t] = ForwardArgs(rq[t])]
                 /\ UNCHANGED <<rq, hash, reply>>
    /\ UNCHANGED <<config, db, files, now, filled>>

\* handle_request, lines 143-175: the forwarder answered with res.
ForwardOk(t, res, io) ==
    /\ pc[t] = "forwarding"
    /\ IF StatusIsOK(res)
       THEN IF ~filter_body(res.body)
            THEN /\ Return(t, "ok", res, res, calls[t],
                           "response blocked by filter, not saved to cache",
                           NoError)
                 /\ UNCHANGED <<db, filled>>
            ELSE /\ db' = DataCache_insert(hash[t], res, io)
                 /\ filled' = IF io
                              THEN (hash[t] :> [rq |-> rq[t], response |-> res,
                                                at |-> now]) @@ filled
                              ELSE filled
                 /\ Return(t, "ok", res, res, calls[t],
                           IF io THEN "new response saved to cache"
                           ELSE "error saving response to cache", NoError)
       ELSE /\ Return(t, "ok", res, res, calls[t],
                      "response status code, not saved to cache", NoError)
            /\ UNCHANGED <<db, filled>>
    /\ UNCHANGED <<config, files, now>>

\* Mutant: the forwarder's error is replaced by one of handle_request's own.
ForwardErr_own_error(t, err) ==
    /\ pc[t] = "forwarding"
    /\ Return(t, "error", NoResponse, NoResponse, calls[t],
              "received new request", "connection refused")
    /\ UNCHANGED <<config, db, files, now, filled>>

\* handle_request, line 176: the forwarder failed with err.
ForwardErr(t, err) ==
    /\ pc[t] = "forwarding"
    /\ Return(t, "error", NoResponse, NoResponse, calls[t],
              "received new request", err)
    /\ UNCHANGED <<config, db, files, now, filled>>

\* The wall clock advances.
Tick ==
    /\ now < MaxTime
    /\ now' = now + 1
    /\ UNCHANGED <<config, db, files, pc, rq, hash, calls, sent, reply, filled>>

Next ==
    \/ \E t \in TaskIds, req \in Requests, io \in BOOLEAN : Receive(t, req, io)
    \/ \E t \in TaskIds, io \in BOOLEAN : Lookup(t, io)
    \/ \E t \in TaskIds, res \in Responses, io \in BOOLEAN : ForwardOk(t, res, io)
    \/ \E t \in TaskIds, err \in Errors : ForwardErr(t, err)
    \/ Tick

Spec == Init /\ [][Next]_vars

\* ======================================================================
\* Properties
\* ======================================================================

\* Task t takes its Lookup step / its ForwardOk or ForwardErr step.
LookupStep(t) == pc[t] = "lookup" /\ pc'[t] # "lookup"
ForwardStep(t) == pc[t] = "forwarding" /\ pc'[t] = "done"

\* The step ends the task with the cached response / with a panic.
ServedFromCache(t) ==
    /\ pc'[t] = "done"
    /\ reply'.kind = "ok"
    /\ reply'.log = "return cached response"
Panicked(t) == pc'[t] = "done" /\ reply'.kind = "panic"

\* ticks elapsed are at most the TTL / more than the TTL
WithinTTL(ticks) == ticks <= ttl * TicksPerSec

\* C1: a GET or POST request whose fingerprint maps to a stored entry that
\* is fresh (its age is within the TTL) and has a non-empty body completes
\* with the cached response, and the forwarder is not called for it.  (The
\* engine's get delivered the entry: its failure is a panic, see C13, C14.)
C1_FreshEntryIsServed ==
    [][\A t \in TaskIds :
         ( /\ LookupStep(t)
           /\ rq[t].method \in {"GET", "POST"}
           /\ hash[t] \in DOMAIN db
           /\ db[hash[t]].valid
           /\ WithinTTL(now - db[hash[t]].entry.ctime)
           /\ Len(db[hash[t]].entry.body) > 0
           /\ ~Panicked(t) )
         => /\ ServedFromCache(t)
            /\ reply'.rq = rq[t]
            /\ reply'.response.status = db[hash[t]].entry.status
            /\ reply'.response.body = db[hash[t]].entry.body
            /\ reply'.calls = 0
            /\ sent' = sent ]_vars

\* A POST request was answered from the cache, without a forwarder call.
C1_Witness ==
    /\ reply.log = "return cached response"
    /\ reply.kind = "ok"
    /\ reply.rq.method = "POST"
    /\ reply.calls = 0
    /\ Len(reply.response.body) > 0

\* C2: cache-aside fill.  After a forwarded request whose response had
\* status 200 and a non-empty body, passed the filter and was inserted, the
\* next GET or POST request with the same fingerprint that looks up within
\* the TTL, no other insert under the key in between, is answered from the
\* store with the status and the body of that forwarded response.
C2_FillThenHit ==
    [][\A t \in TaskIds :
         ( /\ LookupStep(t)
           /\ rq[t].method \in {"GET", "POST"}
           /\ hash[t] \in DOMAIN filled
           /\ Len(filled[hash[t]].response.body) > 0
           /\ WithinTTL(now - filled[hash[t]].at)
           /\ ~Panicked(t) )
         => /\ ServedFromCache(t)
            /\ reply'.rq = rq[t]
            /\ reply'.response.status = filled[hash[t]].response.status
            /\ reply'.response.body = filled[hash[t]].response.body
            /\ reply'.calls = 0 ]_vars

\* A request was answered, later on, with the status and body that an
\* earlier request's forwarding had put into the store.
C2_Witness ==
    /\ reply.log = "return cached response"
    /\ reply.hash \in DOMAIN filled
    /\ filled[reply.hash].at < now
    /\ reply.response.body = filled[reply.hash].response.body
    /\ reply.response.status = 200

\* The nine header names a cached response may carry over, in the
\* canonical form of a header map.
AllowListed ==
    { "access-control-allow-headers", "access-control-allow-origin",
      "access-control-allow-methods", "content-type",
      "strict-transport-security", "content-security-policy",
      "referrer-policy", "x-xss-protection", "x-content-type-options" }

\* Task t reads back, within the TTL, the non-empty response last inserted
\* under its key.
ReadsBack(t) ==
    /\ LookupStep(t)
    /\ rq[t].method \in {"GET", "POST"}
    /\ hash[t] \in DOMAIN filled
    /\ Len(filled[hash[t]].response.body) > 0
    /\ WithinTTL(now - filled[hash[t]].at)
    /\ ~Panicked(t)

C4_TtlBoundaryAsClaimed ==
    [][\A t \in TaskIds :
         ( /\ LookupStep(t)
           /\ rq[t].method \in {"GET", "POST"}
           /\ hash[t] \in DOMAIN db
           /\ db[hash[t]].valid
           /\ Len(db[hash[t]].entry.body) > 0
           /\ ~Panicked(t) )
         => LET elapsed == now - db[hash[t]].entry.ctime IN
            /\ WithinTTL(elapsed) => ServedFromCache(t)
            /\ ~WithinTTL(elapsed) =>
                 /\ ~ServedFromCache(t)
                 /\ pc'[t] = "forwarding" ]_vars

\* C5: an entry whose stored body is empty is never returned as a hit, at
\* any age; the request whose fingerprint maps to it is forwarded.
C5_EmptyBodyNeverServed ==
    [][\A t \in TaskIds :
         ( /\ LookupStep(t)
           /\ hash[t] \in DOMAIN db
           /\ db[hash[t]].valid
           /\ Len(db[hash[t]].entry.body) = 0 )
         => /\ ~ServedFromCache(t)
            /\ ~Panicked(t) =>
                 /\ pc'[t] = "forwarding"
                 /\ calls'[t] = 1
                 /\ sent'[t] = ForwardArgs(rq[t])
                 /\ reply' = reply ]_vars

\* A GET request is being forwarded although its key holds an entry, with
\* an empty body, inserted at this very time.
C5_Witness ==
    \E t \in TaskIds :
      /\ pc[t] = "forwarding"
      /\ rq[t].method = "GET"
      /\ hash[t] \in DOMAIN db
      /\ db[hash[t]].valid
      /\ Len(db[hash[t]].entry.body) = 0
      /\ db[hash[t]].entry.ctime = now
      /\ reply.log = "new response saved to cache"
      /\ reply.hash = hash[t]

\* C6: when the forwarder answers with a status other than 200,
\* handle_request returns that response and the store stays as it was.
C6_NonOkNotStored ==
    [][\A t \in TaskIds :
         ( /\ ForwardStep(t)
           /\ reply'.kind = "ok"
           /\ reply'.upstream.status # 200 )
         => /\ db' = db
            /\ filled' = filled
            /\ reply'.response = reply'.upstream
            /\ reply'.rq = rq[t]
            /\ reply'.calls = 1 ]_vars

\* A 404 was returned for a key the store does not hold, and a GET request
\* with the same fingerprint received afterwards went on to the forwarder.
C6_Witness ==
    /\ reply.kind = "ok"
    /\ reply.upstream.status = 404
    /\ reply.response.status = 404
    /\ reply.hash \notin DOMAIN db
    /\ pc[1] = "done"
    /\ pc[2] = "forwarding"
    /\ hash[2] = reply.hash
    /\ rq[2].method = "GET"

\* The forwarder answered task t with status 200.
ForwardedOk200(t) ==
    /\ ForwardStep(t)
    /\ reply'.kind = "ok"
    /\ reply'.upstream.status = 200

\* After the step the store holds, under the key of task t, the response
\* the forwarder gave it, created now.
StoredNow(t) ==
    /\ hash[t] \in DOMAIN db'
    /\ db'[hash[t]].valid
    /\ db'[hash[t]].entry.status = reply'.upstream.status
    /\ db'[hash[t]].entry.headers = reply'.upstream.headers
    /\ db'[hash[t]].entry.body = reply'.upstream.body
    /\ db'[hash[t]].entry.ctime = now
    /\ \A k \in DOMAIN db : k # hash[t] => k \in DOMAIN db' /\ db'[k] = db[k]
    /\ DOMAIN db' = DOMAIN db \cup {hash[t]}

\* The response was passed to DataCache::insert, and is stored unless the
\* engine reported an error / the response was kept out of the store.
Inserted(t) ==
    \/ reply'.log = "new response saved to cache" /\ StoredNow(t)
    \/ reply'.log = "error saving response to cache" /\ db' = db
Blocked(t) ==
    /\ reply'.log = "response blocked by filter, not saved to cache"
    /\ db' = db

HasNone == \E i \in 1..Len(filter_include) : ~filter_include[i].some

\* C7: with filter_include empty every 200 response is stored; with only
\* Some patterns in it a 200 response is stored if and only if its body has
\* at least 12 bytes and its first 12 bytes equal one of the patterns; the
\* response is returned to the caller in every case.
C7_ExactPatternFilter ==
    [][\A t \in TaskIds :
         (ForwardedOk200(t) /\ ~HasNone) =>
           LET body == reply'.upstream.body
               matches ==
                 /\ Len(body) >= 12
                 /\ \E i \in 1..Len(filter_include) :
                      filter_include[i].val = SubSeq(body, 1, 12)
           IN /\ reply'.response = reply'.upstream
              /\ Len(filter_include) = 0 => Inserted(t)
              /\ (Len(filter_include) > 0 /\ matches) => Inserted(t)
              /\ (Len(filter_include) > 0 /\ ~matches) => Blocked(t) ]_vars

\* Under a filter of Some patterns a body of more than 12 bytes that
\* starts with one of them was stored.
C7_Witness ==
    /\ Len(filter_include) > 0
    /\ ~HasNone
    /\ reply.log = "new response saved to cache"
    /\ Len(reply.upstream.body) > 12
    /\ reply.hash \in DOMAIN db
    /\ db[reply.hash].entry.body = reply.response.body

\* C8 as claimed: with a None entry in filter_include every 200 response,
\* whatever its body, is accepted and inserted.
C8_NoneAcceptsAllAsClaimed ==
    [][\A t \in TaskIds :
         (ForwardedOk200(t) /\ HasNone) => Inserted(t) ]_vars

\* C8, amended: with a None entry in filter_include every 200 response
\* whose body has at least 12 bytes is accepted and inserted, whatever the
\* bytes; a body of fewer than 12 bytes is still kept out of the store.
C8_NoneAcceptsLongBodies ==
    [][\A t \in TaskIds :
         (ForwardedOk200(t) /\ HasNone) =>
           /\ reply'.response = reply'.upstream
           /\ Len(reply'.upstream.body) >= 12 => Inserted(t)
           /\ Len(reply'.upstream.body) < 12 => Blocked(t) ]_vars

\* A body that equals no Some pattern of the filter was stored because the
\* filter holds a None.
C8_Witness ==
    /\ HasNone
    /\ reply.log = "new response saved to cache"
    /\ Len(reply.upstream.body) >= 12
    /\ \A i \in 1..Len(filter_include) :
         filter_include[i].val # SubSeq(reply.upstream.body, 1, 12)
    /\ reply.hash \in DOMAIN db
    /\ db[reply.hash].entry.body = reply.upstream.body

\* C9 as claimed: requests with the same path and body and different query
\* strings have different keys, so the response stored for one of them is
\* never served from the cache to the other.
C9_QueryInKeyAsClaimed ==
    [][\A t \in TaskIds :
         ( /\ LookupStep(t)
           /\ ServedFromCache(t)
           /\ hash[t] \in DOMAIN filled
           /\ filled[hash[t]].rq.path = rq[t].path
           /\ filled[hash[t]].rq.body = rq[t].body )
         => filled[hash[t]].rq.query = rq[t].query ]_vars

\* The requests the state holds with their keys: those in hand, the one
\* last answered, and those whose responses were inserted.
Keyed ==
    { <<rq[t], hash[t]>> : t \in { u \in TaskIds : pc[u] \in {"lookup", "forwarding"} } }
    \cup { <<reply.rq, reply.hash>> : x \in { y \in {1} : reply.kind # "none" } }
    \cup { <<filled[h].rq, h>> : h \in DOMAIN filled }

\* C10: the key never depends on the headers or the method: requests that
\* agree on path, query string and body, whatever their headers and
\* methods, have the same key, and so read and write the same store entry.
C10_KeyIgnoresHeadersAndMethod ==
    \A a \in Keyed : \A b \in Keyed :
        ( /\ a[1].path = b[1].path
          /\ a[1].query = b[1].query
          /\ a[1].body = b[1].body )
        => a[2] = b[2]

\* A request was served the entry that a request differing from it in the
\* method alone had written.
C10_Witness ==
    /\ reply.log = "return cached response"
    /\ reply.hash \in DOMAIN filled
    /\ filled[reply.hash].rq.method # reply.rq.method
    /\ filled[reply.hash].rq.path = reply.rq.path
    /\ filled[reply.hash].rq.body = reply.rq.body
    /\ filled[reply.hash].rq.query = reply.rq.query
    /\ filled[reply.hash].rq.headers = reply.rq.headers

\* C11 as claimed: rq_hash_string is injective on (path, body) pairs: two
\* requests have the same key exactly when they have the same path and the
\* same body.
C11_InjectiveAsClaimed ==
    \A a \in Keyed : \A b \in Keyed :
        (a[2] = b[2]) <=> (a[1].path = b[1].path /\ a[1].body = b[1].body)

\* C12: a request whose method is neither GET nor POST is never answered
\* from the store: its Lookup step leaves the store unread and unchanged,
\* answers nothing, and passes the request to the forwarder, whatever the
\* store holds under its key.
C12_OtherMethodsAlwaysForwarded ==
    [][\A t \in TaskIds :
         (LookupStep(t) /\ rq[t].method \notin {"GET", "POST"}) =>
           /\ pc'[t] = "forwarding"
           /\ calls'[t] = 1
           /\ sent'[t] = ForwardArgs(rq[t])
           /\ reply' = reply
           /\ db' = db]_vars

\* A PUT request is with the forwarder while the store holds, under its key,
\* a non-empty entry created at this very instant.
C12_Witness ==
    \E t \in TaskIds :
        /\ pc[t] = "forwarding"
        /\ rq[t].method = "PUT"
        /\ hash[t] \in DOMAIN db
        /\ db[hash[t]].valid
        /\ Len(db[hash[t]].entry.body) > 0
        /\ db[hash[t]].entry.ctime = now
        /\ reply.log = "new response saved to cache"
        /\ reply.hash = hash[t]

\* C13 as claimed: caching is best-effort: no request is aborted, and a
\* request ends in an error only when its one forwarder call failed.
C13_BestEffortAsClaimed ==
    \/ reply.kind \in {"none", "ok"}
    \/ reply.kind = "error" /\ reply.calls = 1 /\ reply.err \in Errors

\* Task t, with a GET or POST request in hand, is about to look its key up;
\* the bytes stored under the key do not deserialize.
ReadsStore(t) == pc[t] = "lookup" /\ rq[t].method \in {"GET", "POST"}
CorruptUnderKey(t) == hash[t] \in DOMAIN db /\ ~db[hash[t]].valid

\* C14 as claimed: when the engine's get fails or the stored bytes fail to
\* deserialize, the request is terminated with an error and is not
\* forwarded.  (A panic is counted as a termination with an error.)
C14_ReadErrorsFatalAsClaimed ==
    [][\A t \in TaskIds :
         ( /\ ReadsStore(t)
           /\ LookupStep(t)
           /\ (Lookup(t, FALSE) \/ CorruptUnderKey(t)) )
         => /\ pc'[t] = "done"
            /\ reply'.kind \in {"error", "panic"}
            /\ reply'.calls = 0 ]_vars

\* C14, amended: the two read-path errors are handled differently.  When
\* the engine's get fails the request is aborted by a panic and is not
\* forwarded; when the engine delivers bytes that fail to deserialize the
\* failure is treated as a miss: the request is forwarded, once, and
\* nothing is returned before the forwarder answers.  The store is left
\* as it was in both cases.
C14_ReadErrors ==
    [][\A t \in TaskIds :
         ReadsStore(t) =>
           /\ Lookup(t, FALSE) =>
                /\ Panicked(t)
                /\ reply'.calls = 0
                /\ db' = db
           /\ (Lookup(t, TRUE) /\ CorruptUnderKey(t)) =>
                /\ pc'[t] = "forwarding"
                /\ calls'[t] = 1
                /\ sent'[t] = ForwardArgs(rq[t])
                /\ reply' = reply
                /\ db' = db ]_vars

\* A GET request is with the forwarder while the bytes under its key do
\* not deserialize (they have been there since before its lookup), and the
\* request answered last was aborted by a panic.
C14_Witness ==
    /\ \E t \in TaskIds :
         /\ pc[t] = "forwarding"
         /\ rq[t].method = "GET"
         /\ CorruptUnderKey(t)
    /\ reply.kind = "panic"

\* C15: whenever the forwarder answers task t with a response res, whatever
\* its status, whether the filter blocks its body or not, and whether the
\* insert succeeds or fails, handle_request returns res itself: the same
\* status, headers and body.
C15_ForwarderResponseReturned ==
    [][\A t \in TaskIds :
         ForwardStep(t) =>
           \A res \in Responses : \A io \in BOOLEAN :
              ForwardOk(t, res, io) =>
                /\ reply'.kind = "ok"
                /\ reply'.response.status = res.status
                /\ reply'.response.headers = res.headers
                /\ reply'.response.body = res.body
                /\ reply'.calls = 1 ]_vars

\* The insert of a 200 response with a non-empty body failed: the store
\* holds nothing under the key, and the caller received the forwarder's
\* response.
C15_Witness ==
    /\ reply.kind = "ok"
    /\ reply.log = "error saving response to cache"
    /\ reply.upstream.status = 200
    /\ Len(reply.upstream.body) > 0
    /\ reply.response = reply.upstream
    /\ reply.hash \notin DOMAIN db

\* C16: when the forwarder fails with err, handle_request returns err, the
\* forwarder was called exactly once for the request (no retry), and the
\* store is left as it was; no task ever has more than one forwarder call.
C16_ForwarderErrorReturned ==
    [][/\ \A t \in TaskIds : calls'[t] <= 1
       /\ \A t \in TaskIds :
            ForwardStep(t) =>
              \A err \in Errors :
                 ForwardErr(t, err) =>
                   /\ reply'.kind = "error"
                   /\ reply'.err = err
                   /\ reply'.calls = 1
                   /\ reply'.response = NoResponse
                   /\ db' = db ]_vars

\* A GET request found nothing under its key, its forwarder call timed out
\* and the error was returned; the store still holds nothing under the key.
C16_Witness ==
    /\ reply.kind = "error"
    /\ reply.err = "timed out"
    /\ reply.rq.method = "GET"
    /\ reply.calls = 1
    /\ reply.hash \notin DOMAIN db

\* Every record of the store that deserializes is, whole, the record of the
\* last successful insert under its key: that response's status, headers
\* and body with that insert's creation time.
CompleteRecords ==
    \A k \in DOMAIN db :
        db[k].valid =>
          /\ k \in DOMAIN filled
          /\ db[k].entry.status = filled[k].response.status
          /\ db[k].entry.headers = filled[k].response.headers
          /\ db[k].entry.body = filled[k].response.body
          /\ db[k].entry.ctime = filled[k].at

\* C17: under every interleaving of the two tasks, each successful insert
\* puts its own complete record under its key, replacing whatever another
\* task put there (the later write wins), and leaves the records of all
\* other keys as they were; so the store never holds a mixture of two
\* records, and a lookup of the key is a miss or returns the status and
\* body of the complete record it found.
C17_LastWriteWins ==
    [][/\ CompleteRecords'
       /\ \A t \in TaskIds :
            (ForwardStep(t) /\ reply'.log = "new response saved to cache")
            => StoredNow(t)
       /\ \A t \in TaskIds :
            (LookupStep(t) /\ ServedFromCache(t)) =>
              /\ db' = db
              /\ reply'.response.status = filled[hash[t]].response.status
              /\ reply'.response.body = filled[hash[t]].response.body ]_vars

\* Two requests with the same key are in flight together: the first has
\* just inserted its response, and the second, a GET that looked the key
\* up before that insert (it would have been served otherwise), is with the
\* forwarder and will insert under the same key.
C17_Witness ==
    /\ pc[1] = "done"
    /\ pc[2] = "forwarding"
    /\ rq[2].method = "GET"
    /\ reply.log = "new response saved to cache"
    /\ reply.hash = hash[2]
    /\ hash[2] \in DOMAIN db
    /\ db[hash[2]].valid
    /\ Len(db[hash[2]].entry.body) > 0
    /\ db[hash[2]].entry.ctime = now
    /\ filter_include = <<>>

\* C18 as claimed: a request whose method is neither GET nor POST writes
\* nothing to the store, so no request is ever served a response that such
\* a request obtained.
C18_OtherMethodsNotStoredAsClaimed ==
    [][\A t \in TaskIds :
         /\ (ForwardStep(t) /\ rq[t].method \notin {"GET", "POST"})
            => db' = db
         /\ (LookupStep(t) /\ ServedFromCache(t) /\ hash[t] \in DOMAIN filled)
            => filled[hash[t]].rq.method \in {"GET", "POST"} ]_vars

\* C19: no step removes a key from the store; a Lookup step, whatever it
\* finds (a hit, an expired entry, an entry with an empty body, bytes that
\* do not deserialize), leaves the store as it was; and the record under a
\* key changes only in the step of a successful insert under that key,
\* which puts there the whole record of the inserted response with the
\* current time as its creation time.
C19_EntriesImmutable ==
    [][/\ DOMAIN db \subseteq DOMAIN db'
       /\ \A t \in TaskIds : LookupStep(t) => db' = db
       /\ \A k \in DOMAIN db' :
            (k \notin DOMAIN db \/ db'[k] # db[k]) =>
              \E t \in TaskIds :
                 /\ ForwardStep(t)
                 /\ hash[t] = k
                 /\ reply'.log = "new response saved to cache"
                 /\ db'[k].valid
                 /\ db'[k].entry.status = reply'.upstream.status
                 /\ db'[k].entry.headers = reply'.upstream.headers
                 /\ db'[k].entry.body = reply'.upstream.body
                 /\ db'[k].entry.ctime = now ]_vars

\* A request was served from the cache at a time after the entry's insert,
\* and the entry is still there with the creation time of that insert; the
\* store also holds, under another key, a record no lookup would serve
\* (an empty body, or bytes that do not deserialize).
C19_Witness ==
    /\ reply.log = "return cached response"
    /\ reply.hash \in DOMAIN db
    /\ db[reply.hash].valid
    /\ db[reply.hash].entry.ctime = filled[reply.hash].at
    /\ db[reply.hash].entry.ctime < now
    /\ \E k \in DOMAIN db :
         /\ k # reply.hash
         /\ \/ ~db[k].valid
            \/ Len(db[k].entry.body) = 0

\* C20: in every reachable state every entry of the store (every record
\* that deserializes; all of them were written by handle_request) has
\* status 200 and, when filter_include is not empty, a body of at least 12
\* bytes whose first 12 bytes a pattern of filter_include matches (a None
\* pattern matches any); and every response served from the cache has
\* status 200.
C20_StoreHoldsOnlyAccepted ==
    /\ \A k \in DOMAIN db :
         db[k].valid =>
           /\ db[k].entry.status = 200
           /\ Len(filter_include) > 0 =>
                /\ Len(db[k].entry.body) >= 12
                /\ \E i \in 1..Len(filter_include) :
                     \/ ~filter_include[i].some
                     \/ filter_include[i].val = SubSeq(db[k].entry.body, 1, 12)
    /\ reply.log = "return cached response" => reply.response.status = 200

\* With a filter of Some patterns alone configured, the store holds an
\* entry with a body of 12 bytes or more, and a request has been served it
\* from the cache with status 200.
C20_Witness ==
    /\ Len(filter_include) > 0
    /\ ~HasNone
    /\ reply.log = "return cached response"
    /\ reply.response.status = 200
    /\ reply.hash \in DOMAIN db
    /\ db[reply.hash].valid
    /\ Len(db[reply.hash].entry.body) >= 12

====
